---- MODULE Spec2Model ----
(***************************************************************************)
(* Model of src/G2/multi_scraper.py: the fetcher (fetch), the extractor    *)
(* (parse_rating, parse_reviews), the pagination resolver (find_next_url)  *)
(* and the driver loop of main in its online and its offline mode.         *)
(*                                                                         *)
(* Text is modelled as a sequence of one-character strings, so that the    *)
(* conversions of the code (int, str, the regular expressions, the         *)
(* substring tests, parse_qs and urlencode) are computed and not assumed.  *)
(***************************************************************************)
EXTENDS Integers, Sequences, FiniteSets, TLC

VARIABLES
    mode,          \* "online" | "offline" | "next" | "extract": what runs
    pages,         \* args.pages
    sel_next,      \* args.sel_next ("" when not configured)
    selectors,     \* the fields whose selector is configured
    offline_base,  \* args.offline_base (EmptyUrl when not given)
    files,         \* expanded: the offline files still to be parsed
    url,           \* main: url
    seen_urls,     \* main: seen_urls
    all_reviews,   \* main: all_reviews
    page_idx,      \* main: page_idx
    pc,            \* position of main
    attempt,       \* fetch: attempt
    gets,          \* fetch: session.get calls issued by the current call
    slept,         \* fetch: the exponents of the backoff sleeps of the call
    last,          \* fetch: the outcome of the latest session.get of the call
    html,          \* main: html, the value fetch returned
    fetched,       \* history: the URLs passed to fetch, in order
    served,        \* history: the pages the fetches returned, in order
    parsed,        \* history: the source URLs passed to parse_reviews
    resolved,      \* history: the number of find_next_url calls
    output,        \* history: the record lists handed to the sink
    arg,           \* input of the function under study (pure specifications)
    ret            \* its result

vars == <<mode, pages, sel_next, selectors, offline_base, files, url, seen_urls,
          all_reviews, page_idx, pc, attempt, gets, slept, last, html,
          fetched, served, parsed, resolved, output, arg, ret>>

----------------------------------------------------------------------------
(* Bounds of the model *)

MaxElems == 2
MaxCards == 2
MaxPages == 3
MaxFiles == 2

(* Program constants *)

MaxRetries == 4
PageSize == 20
OfflinePageSize == 20

----------------------------------------------------------------------------
(* Text helpers *)

Digits == <<"0", "1", "2", "3", "4", "5", "6", "7", "8", "9">>

IsDigit(c) == \E i \in 1..10 : Digits[i] = c

DigitVal(c) == (CHOOSE i \in 1..10 : Digits[i] = c) - 1

AllDigits(s) == \A i \in 1..Len(s) : IsDigit(s[i])

RECURSIVE DecVal(_)
DecVal(s) ==
    IF s = <<>> THEN 0
    ELSE 10 * DecVal(SubSeq(s, 1, Len(s) - 1)) + DigitVal(s[Len(s)])

RECURSIVE NatStr(_)
NatStr(n) ==
    IF n < 10 THEN <<Digits[n + 1]>>
    ELSE NatStr(n \div 10) \o <<Digits[(n % 10) + 1]>>

\* str(n) of an int
Str(n) == IF n < 0 THEN <<"-">> \o NatStr(-n) ELSE NatStr(n)

\* int(s) raises ValueError unless s is an optionally signed run of digits
IntOk(s) ==
    /\ s # <<>>
    /\ IF s[1] \in {"-", "+"}
       THEN Len(s) > 1 /\ AllDigits(Tail(s))
       ELSE AllDigits(s)

Int_(s) ==
    IF s[1] = "-" THEN -DecVal(Tail(s))
    ELSE IF s[1] = "+" THEN DecVal(Tail(s))
    ELSE DecVal(s)

\* needle in hay (Python's substring test)
Contains(hay, needle) ==
    \E i \in 1..(Len(hay) - Len(needle) + 1) :
        SubSeq(hay, i, i + Len(needle) - 1) = needle

\* the least index of a set of indices, 0 when it is empty: the first element
\* in document order (select_one, the first candidate of a loop)
First(I) == IF I = {} THEN 0 ELSE CHOOSE i \in I : \A j \in I : i <= j

----------------------------------------------------------------------------
(* URLs: urlparse, parse_qs, urlencode, urlunparse, urljoin *)

EmptyUrl == [scheme |-> "", netloc |-> <<>>, path |-> <<>>, query |-> <<>>]

\* parse_qs drops the pairs with a blank value and groups the rest by key;
\* {k: v[0] for k, v in q.items()} keeps the first value of each key, in the
\* order the keys first appear
FirstValues(query) ==
    LET kept == SelectSeq(query, LAMBDA kv : kv[2] # <<>>)
        idx == {i \in 1..Len(kept) : \A j \in 1..(i - 1) : kept[j][1] # kept[i][1]}
        RECURSIVE Pick(_)
        Pick(i) ==
            IF i > Len(kept) THEN <<>>
            ELSE (IF i \in idx THEN <<kept[i]>> ELSE <<>>) \o Pick(i + 1)
    IN Pick(1)

HasKey(q, k) == \E i \in 1..Len(q) : q[i][1] = k

GetFirst(q, k, default) ==
    IF HasKey(q, k) THEN q[CHOOSE i \in 1..Len(q) : q[i][1] = k][2] ELSE default

\* q[k] = [v] on the dict, then urlencode of the first values
SetKey(q, k, v) ==
    IF HasKey(q, k)
    THEN [i \in 1..Len(q) |-> IF q[i][1] = k THEN <<k, v>> ELSE q[i]]
    ELSE Append(q, <<k, v>>)

NoHref == [kind |-> "none", path |-> <<>>, url |-> EmptyUrl]

Truthy(href) == href.kind \notin {"none", "empty"}

urljoin(base, href) ==
    IF href.kind = "abs" THEN href.url
    ELSE [scheme |-> base.scheme, netloc |-> base.netloc,
          path |-> href.path, query |-> <<>>]

----------------------------------------------------------------------------
(* find_next_url *)

S_yelp == <<"y", "e", "l", "p", ".", "c", "o", "m">>
S_biz == <<"/", "b", "i", "z", "/">>

Matches(e, sel) == sel = "a.next" /\ e.tag = "a" /\ e.cls = "next"

RelNext(e) == e.tag \in {"a", "link"} /\ e.rel = "next"

\* re.compile(r"\b(Next|Older|More)\b", re.I) searched in the anchor's string
TextMatches(s) == s \in {"Next", "older posts", "MORE"}

TextNext(e) == e.tag = "a" /\ TextMatches(e.string)

KnownSite(u) == Contains(u.netloc, S_yelp) /\ Contains(u.path, S_biz)

Found(u) == [kind |-> "url", url |-> u]

NotFound == [kind |-> "none", url |-> EmptyUrl]

\* int() raised ValueError
Raised == [kind |-> "error", url |-> EmptyUrl]

\* soup.select_one(sel_next): the first element the configured selector matches
first_selected(es, sel) ==
    IF sel # "" THEN First({i \in 1..Len(es) : Matches(es[i], sel)}) ELSE 0

\* soup.select_one("a[rel='next'], link[rel='next']")
first_rel(es) == First({i \in 1..Len(es) : RelNext(es[i])})

\* the first candidate of find_all("a", string=...) that has an href
first_text(es) == First({i \in 1..Len(es) : TextNext(es[i]) /\ Truthy(es[i].href)})

HasHref(es, i) == i # 0 /\ Truthy(es[i].href)

\* variant: rel=next is tried before the configured selector
next_strategy_swapped(page, page_url, sel) ==
    IF HasHref(page.elems, first_rel(page.elems)) THEN 2
    ELSE IF HasHref(page.elems, first_selected(page.elems, sel)) THEN 1
    ELSE IF first_text(page.elems) # 0 THEN 3
    ELSE IF KnownSite(page_url) THEN 4
    ELSE 5

\* the return statement find_next_url reaches: 1 line 137, 2 line 140,
\* 3 line 145, 4 line 154 (or the ValueError of line 150), 5 line 155
next_strategy(page, page_url, sel) ==
    IF HasHref(page.elems, first_selected(page.elems, sel)) THEN 1
    ELSE IF HasHref(page.elems, first_rel(page.elems)) THEN 2
    ELSE IF first_text(page.elems) # 0 THEN 3
    ELSE IF KnownSite(page_url) THEN 4
    ELSE 5

\* variant: the query is left as it is
WithStart_same(u, n) == u

\* lines 152-154: q["start"] = [str(n)], urlencode of the first values,
\* urlunparse with the other components unchanged
WithStart(u, n) ==
    [u EXCEPT !.query = SetKey(FirstValues(u.query), "start", Str(n))]

\* lines 147-154
synthesize(page_url) ==
    LET start == GetFirst(FirstValues(page_url.query), "start", <<"0">>)
    IN IF IntOk(start) THEN Found(WithStart(page_url, Int_(start) + PageSize))
       ELSE Raised

find_next_url(page, page_url, sel) ==
    LET es == page.elems
        s == next_strategy(page, page_url, sel)
    IN CASE s = 1 -> Found(urljoin(page_url, es[first_selected(es, sel)].href))
         [] s = 2 -> Found(urljoin(page_url, es[first_rel(es)].href))
         [] s = 3 -> Found(urljoin(page_url, es[first_text(es)].href))
         [] s = 4 -> synthesize(page_url)
         [] OTHER -> NotFound

----------------------------------------------------------------------------
(* Extractor: get_text_or_none, parse_rating, parse_reviews *)

None == [some |-> FALSE]

Some(v) == [some |-> TRUE, v |-> v]

\* a node the selector did not find
NoNode == [present |-> FALSE, aria |-> None, title |-> None, text |-> <<>>]

RECURSIVE LStrip(_)
LStrip(s) == IF s # <<>> /\ s[1] = " " THEN LStrip(Tail(s)) ELSE s

RECURSIVE RStrip(_)
RStrip(s) ==
    IF s # <<>> /\ s[Len(s)] = " " THEN RStrip(SubSeq(s, 1, Len(s) - 1)) ELSE s

\* node.get_text(strip=True)
Strip(s) == RStrip(LStrip(s))

get_text_or_none(node) ==
    IF ~node.present THEN None
    ELSE IF Strip(node.text) # <<>> THEN Some(Strip(node.text)) ELSE None

\* the maximal run of digits of s that starts at index i
RECURSIVE DigitRun(_, _)
DigitRun(s, i) ==
    IF i <= Len(s) /\ IsDigit(s[i]) THEN <<s[i]>> \o DigitRun(s, i + 1) ELSE <<>>

RECURSIVE Pow10(_)
Pow10(k) == IF k = 0 THEN 1 ELSE 10 * Pow10(k - 1)

\* the digits of the fraction kept by the numeric representation
FracDigits == 3

\* float(text) of the match of (\d+(?:\.\d+)?), in units of 10^-FracDigits
Float(whole, frac) ==
    DecVal(whole) * Pow10(FracDigits) + DecVal(frac) * Pow10(FracDigits - Len(frac))

parse_rating(val) ==
    IF ~val.some \/ val.v = <<>> THEN None
    ELSE LET s == val.v
             i == First({j \in 1..Len(s) : IsDigit(s[j])})
             whole == DigitRun(s, i)
             dot == i + Len(whole)
             frac == IF dot <= Len(s) /\ s[dot] = "." THEN DigitRun(s, dot + 1) ELSE <<>>
         IN IF i = 0 THEN None ELSE Some(Float(whole, frac))

\* a or b of two optional strings (None and "" are falsy)
OrElse(a, b) == IF a.some /\ a.v # <<>> THEN a ELSE b

\* rating_node.get("aria-label") or rating_node.get("title") or
\* rating_node.get_text(" ", strip=True)
rating_raw(node) ==
    IF ~node.present THEN None
    ELSE OrElse(node.aria, OrElse(node.title, Some(Strip(node.text))))

\* the truth value Python gives a field inside any([...]): a string is true
\* unless empty, a float is true unless zero
TrueStr(field) == field.some /\ field.v # <<>>

TrueNum(field) == field.some /\ field.v # 0

Review(it, page_url, sel) ==
    [reviewer |-> IF "reviewer" \in sel THEN get_text_or_none(it.reviewer) ELSE None,
     rating |-> parse_rating(IF "rating" \in sel THEN rating_raw(it.rating) ELSE None),
     date |-> IF "date" \in sel THEN get_text_or_none(it.date) ELSE None,
     text |-> IF "text" \in sel THEN get_text_or_none(it.text) ELSE None,
     source_url |-> page_url]

\* the test of line 127: the container is kept
Kept(r) == TrueStr(r.reviewer) \/ TrueNum(r.rating) \/ TrueStr(r.date) \/ TrueStr(r.text)

RECURSIVE parse_items(_, _, _)
parse_items(items, page_url, sel) ==
    IF items = <<>> THEN <<>>
    ELSE LET r == Review(Head(items), page_url, sel)
         IN (IF Kept(r) THEN <<r>> ELSE <<>>) \o parse_items(Tail(items), page_url, sel)

parse_reviews(page, page_url, sel) == parse_items(page.cards, page_url, sel)

----------------------------------------------------------------------------
(* Inputs *)

S_x == <<"x", ".", "c", "o", "m">>
S_www_yelp == <<"w", "w", "w", ".">> \o S_yelp
S_notyelp == <<"n", "o", "t">> \o S_yelp \o <<".", "e", "v">>
S_p1 == <<"/", "p", "1">>
S_p2 == <<"/", "p", "2">>
S_p3 == <<"/", "p", "3">>
S_biz_x == S_biz \o <<"x">>
S_search == <<"/", "s", "e", "a", "r", "c", "h">>

Url(netloc, path, query) ==
    [scheme |-> "https", netloc |-> netloc, path |-> path, query |-> query]

StartIs(v) == <<<<"start", v>>>>

U_p1 == Url(S_x, S_p1, <<>>)
U_biz == Url(S_www_yelp, S_biz_x, <<>>)
U_biz20 == Url(S_www_yelp, S_biz_x, StartIs(<<"2", "0">>))
U_bizabc == Url(S_www_yelp, S_biz_x, StartIs(<<"a", "b", "c">>))

\* the page URLs find_next_url is studied on
NextUrls ==
    {U_p1, U_biz, U_biz20, U_bizabc,
     Url(S_x, S_biz_x, StartIs(<<"2", "0">>)),
     Url(S_www_yelp, S_search, StartIs(<<"2", "0">>)),
     Url(S_notyelp, S_biz_x, StartIs(<<"0", "2", "0">>)),
     Url(S_yelp, S_biz_x, StartIs(<<"-", "4", "0">>)),
     Url(S_yelp, S_biz_x, StartIs(<<>>)),
     Url(S_yelp, S_biz_x,
         <<<<"sort", <<"a">>>>, <<"start", <<"4", "0">>>>, <<"sort", <<"b">>>>>>),
     Url(S_yelp, S_biz_x, <<<<"q", <<>>>>, <<"start", <<"2", "0">>>>>>)}

Path(p) == [kind |-> "path", path |-> p, url |-> EmptyUrl]

Hrefs == {NoHref, [NoHref EXCEPT !.kind = "empty"], Path(S_p2), Path(S_p3)}

Elem(tag, cls, rel, string, href) ==
    [tag |-> tag, cls |-> cls, rel |-> rel, string |-> string, href |-> href]

\* elements that carry one marker of a next link each, a near miss of the
\* text pattern, and an element that carries every marker
Elems ==
    {Elem("a", "next", "", "2", h) : h \in Hrefs}
    \cup {Elem("a", "", "next", "2", h) : h \in Hrefs}
    \cup {Elem("link", "", "next", "", h) : h \in Hrefs}
    \cup {Elem("a", "", "", t, h) : t \in {"older posts", "Nextdoor"}, h \in Hrefs}
    \cup {Elem("a", "next", "next", "MORE", h) : h \in Hrefs}

SeqsUpTo(S, n) == UNION {[1..k -> S] : k \in 0..n}

Page(elems, cards) == [kind |-> "page", elems |-> elems, cards |-> cards]

NextPages == {Page(es, <<>>) : es \in SeqsUpTo(Elems, MaxElems)}

Node(aria, title, text) ==
    [present |-> TRUE, aria |-> aria, title |-> title, text |-> text]

TextNodes ==
    {NoNode, Node(None, None, <<>>), Node(None, None, <<" ">>),
     Node(None, None, <<" ", "A", " ">>)}

RatingNodes ==
    {NoNode,
     Node(None, None, <<"C", "l", "o", "s", "e", "d">>),
     Node(Some(<<"4", ".", "5", " ", "s">>), None, <<>>),
     Node(Some(<<>>), Some(<<"0", " ", "s">>), <<"5">>),
     Node(None, Some(<<"0", ".", "0">>), <<>>),
     Node(None, None, <<" ", "3", ".", " ">>)}

Card(reviewer, rating, date, text) ==
    [reviewer |-> reviewer, rating |-> rating, date |-> date, text |-> text]

Cards ==
    {Card(NoNode, r, NoNode, t) : r \in RatingNodes, t \in TextNodes \ {NoNode}}
    \cup {Card(a, NoNode, d, NoNode) : a, d \in {NoNode, Node(None, None, <<"B">>)}}

Fields == {"reviewer", "rating", "date", "text"}

Selectors == {Fields, Fields \ {"rating"}, {"rating"}, {}}

----------------------------------------------------------------------------
(* fetch: one session.get and what lines 86-96 do with its outcome *)

NoHtml == [kind |-> "none", elems |-> <<>>, cards |-> <<>>]

\* a 2xx response whose text is the empty string
EmptyHtml == [kind |-> "empty", elems |-> <<>>, cards |-> <<>>]

Retryable == {429, 500, 502, 503, 504, 403}

Statuses == {199, 200, 299, 300, 404} \cup Retryable

Is2xx(st) == 200 <= st /\ st < 300

Exception == [exc |-> TRUE, status |-> 0, body |-> NoHtml]

Response(st, body) == [exc |-> FALSE, status |-> st, body |-> body]

\* variant: range(1, max_retries + 2)
fetch_step_extra(r, att) ==
    IF ~r.exc /\ Is2xx(r.status) THEN [op |-> "return", value |-> r.body]
    ELSE IF r.exc \/ r.status \in Retryable
         THEN IF att < MaxRetries + 1
              THEN [op |-> "retry", value |-> NoHtml]
              ELSE [op |-> "return", value |-> NoHtml]
    ELSE [op |-> "return", value |-> NoHtml]

\* what the for loop of fetch does after this response: "return" with a
\* value, or "retry" (the next attempt, after the sleep)
fetch_step(r, att) ==
    IF ~r.exc /\ Is2xx(r.status) THEN [op |-> "return", value |-> r.body]
    ELSE IF r.exc \/ r.status \in Retryable
         THEN IF att < MaxRetries
              THEN [op |-> "retry", value |-> NoHtml]
              ELSE [op |-> "return", value |-> NoHtml]
    ELSE [op |-> "return", value |-> NoHtml]

\* variant: every non-2xx response is followed by a sleep
fetch_sleeps_always(r) == r.exc \/ ~Is2xx(r.status)

\* time.sleep(backoff ** attempt) is reached
fetch_sleeps(r) == r.exc \/ (~Is2xx(r.status) /\ r.status \in Retryable)

\* variant: only the empty string counts as a failed fetch
Falsy_only_empty(h) == h.kind = "empty"

\* if not html
Falsy(h) == h.kind \in {"none", "empty"}

----------------------------------------------------------------------------
(* Offline mode: the source URL of a file *)

\* os.path.splitext(os.path.basename(fp))[0]
Stem(name) ==
    LET d == IF \E i \in 1..Len(name) : name[i] = "."
             THEN CHOOSE i \in 1..Len(name) :
                      name[i] = "." /\ \A j \in (i + 1)..Len(name) : name[j] # "."
             ELSE 0
    IN IF d = 0 \/ \A j \in 1..(d - 1) : name[j] = "." THEN name
       ELSE SubSeq(name, 1, d - 1)

\* the group of re.search(r'(\d+)\D*$', stem): the last run of digits
LastDigits(stem) ==
    LET e == IF \E i \in 1..Len(stem) : IsDigit(stem[i])
             THEN CHOOSE i \in 1..Len(stem) :
                      IsDigit(stem[i]) /\ \A j \in (i + 1)..Len(stem) : ~IsDigit(stem[j])
             ELSE 0
        b == First({i \in 1..e : \A j \in i..e : IsDigit(stem[j])})
    IN IF e = 0 THEN <<>> ELSE SubSeq(stem, b, e)

Max(a, b) == IF a >= b THEN a ELSE b

\* variant: the offset is not clamped at 0
guess_offset_unclamped(name) ==
    LET m == LastDigits(Stem(name))
    IN IF m = <<>> THEN 0 ELSE (DecVal(m) - 1) * OfflinePageSize

\* lines 229-236
guess_offset(name) ==
    LET m == LastDigits(Stem(name))
    IN IF m = <<>> THEN 0 ELSE Max(0, (DecVal(m) - 1) * OfflinePageSize)

FileUrl(name) == [scheme |-> "file", netloc |-> <<>>, path |-> name, query |-> <<>>]

offline_source_url(name, base) ==
    IF base = EmptyUrl THEN FileUrl(name)
    ELSE [base EXCEPT !.query = SetKey(FirstValues(base.query), "start", Str(guess_offset(name)))]

----------------------------------------------------------------------------
(* Inputs of the driver *)

ReviewCard == Card(Node(None, None, <<"B">>), NoNode, NoNode, NoNode)

NextLink(path) == Elem("a", "", "next", "2", Path(path))

\* the pages a site may serve: 20 cards and a next link to /p2; 5 cards and
\* no link; a card, a link to /p3 that only the configured selector finds
\* and a link back to /p1
Fix1 == Page(<<NextLink(S_p2)>>, [i \in 1..20 |-> ReviewCard])

Fix2 == Page(<<>>, [i \in 1..5 |-> ReviewCard])

LinkBack ==
    Page(<<Elem("a", "next", "", "2", Path(S_p3)),
           Elem("a", "", "", "older posts", Path(S_p1))>>,
         <<ReviewCard>>)

Bodies == {Fix1, Fix2, LinkBack}

Responses ==
    {Exception}
    \cup {Response(st, NoHtml) : st \in {s \in Statuses : ~Is2xx(s)}}
    \cup {Response(200, b) : b \in Bodies \cup {EmptyHtml}}
    \cup {Response(299, Fix2)}

StartUrls == {EmptyUrl, U_p1, U_biz, U_biz20, U_bizabc}

S_html == <<".", "h", "t", "m", "l">>

FileNames ==
    {<<"r", "_", "3">> \o S_html,
     <<"r", "_", "0">> \o S_html,
     <<"r">> \o S_html,
     <<"p", "3", "_", "x">> \o S_html,
     <<"1", "r", "1", "2">> \o S_html,
     <<"r", ".", "v", "2">>}

OfflineBases ==
    {EmptyUrl, Url(S_x, S_biz_x, <<>>),
     Url(S_x, S_biz_x, <<<<"start", <<"7">>>>, <<"q", <<"a">>>>>>)}

NoResult == [kind |-> "pending", url |-> EmptyUrl]

NoCall == [exc |-> FALSE, status |-> 0, body |-> NoHtml]

----------------------------------------------------------------------------
(* main: the driver *)

\* variant: the range runs one page too far
Stop_late(u, seen, idx, n) == idx > n + 1 \/ u = EmptyUrl \/ u \in seen

\* variant: the visited set is not consulted
Stop_unguarded(u, seen, idx, n) == idx > n \/ u = EmptyUrl

\* lines 252-253: the for loop is exhausted, or "not url or url in seen_urls"
Stop(u, seen, idx, n) == idx > n \/ u = EmptyUrl \/ u \in seen

Init ==
    /\ mode \in {"online", "offline"}
    /\ selectors = Fields
    /\ IF mode = "online"
       THEN /\ pages \in 0..MaxPages
            /\ url \in StartUrls
            /\ sel_next \in {"", "a.next"}
            /\ offline_base = EmptyUrl
            /\ files = <<>>
            /\ pc = "loop"
       ELSE /\ pages = 0
            /\ url = EmptyUrl
            /\ sel_next = ""
            /\ offline_base \in OfflineBases
            /\ files \in SeqsUpTo(FileNames, MaxFiles)
            /\ pc = "offline"
    /\ seen_urls = {}
    /\ all_reviews = <<>>
    /\ page_idx = 1
    /\ attempt = 0
    /\ gets = 0
    /\ slept = <<>>
    /\ last = NoCall
    /\ html = NoHtml
    /\ fetched = <<>>
    /\ served = <<>>
    /\ parsed = <<>>
    /\ resolved = 0
    /\ output = <<>>
    /\ arg = <<>>
    /\ ret = NoResult

\* lines 252-258: the head of an iteration, up to the call of fetch
LoopHead ==
    /\ pc = "loop"
    /\ IF Stop(url, seen_urls, page_idx, pages)
       THEN /\ pc' = "save"
            /\ UNCHANGED <<seen_urls, fetched, attempt, gets, slept, last>>
       ELSE /\ seen_urls' = seen_urls \cup {url}
            /\ fetched' = Append(fetched, url)
            /\ attempt' = 1
            /\ gets' = 0
            /\ slept' = <<>>
            /\ last' = NoCall
            /\ pc' = "fetch"
    /\ UNCHANGED <<mode, pages, sel_next, selectors, offline_base, files, url,
                   all_reviews, page_idx, html, served, parsed, resolved,
                   output, arg, ret>>

\* lines 83-97: one attempt of fetch
FetchAttempt ==
    /\ pc = "fetch"
    /\ \E r \in Responses :
        LET step == fetch_step(r, attempt)
        IN /\ gets' = gets + 1
           /\ last' = r
           /\ slept' = IF fetch_sleeps(r) THEN Append(slept, attempt) ELSE slept
           /\ IF step.op = "return"
              THEN html' = step.value /\ pc' = "fetched" /\ UNCHANGED attempt
              ELSE attempt' = attempt + 1 /\ UNCHANGED <<html, pc>>
    /\ UNCHANGED <<mode, pages, sel_next, selectors, offline_base, files, url,
                   seen_urls, all_reviews, page_idx, fetched, served, parsed,
                   resolved, output, arg, ret>>

\* lines 259-273: the rest of the iteration, after fetch returned
Continue ==
    /\ pc = "fetched"
    /\ IF Falsy(html)
       THEN /\ pc' = "save"
            /\ UNCHANGED <<url, all_reviews, page_idx, served, parsed, resolved, ret>>
       ELSE LET next_url == find_next_url(html, url, sel_next)
            IN /\ all_reviews' = all_reviews \o parse_reviews(html, url, selectors)
               /\ parsed' = Append(parsed, url)
               /\ served' = Append(served, html)
               /\ resolved' = resolved + 1
               /\ ret' = next_url
               /\ IF next_url.kind = "error"
                  THEN pc' = "crashed" /\ UNCHANGED <<url, page_idx>>
                  ELSE IF next_url.kind = "none"
                  THEN pc' = "save" /\ UNCHANGED <<url, page_idx>>
                  ELSE /\ url' = next_url.url
                       /\ page_idx' = page_idx + 1
                       /\ pc' = "loop"
    /\ UNCHANGED <<mode, pages, sel_next, selectors, offline_base, files,
                   seen_urls, attempt, gets, slept, last, html, fetched,
                   output, arg>>

\* lines 219-245: one file of the offline loop
OfflineFile ==
    /\ pc = "offline"
    /\ IF files = <<>>
       THEN pc' = "save" /\ UNCHANGED <<files, all_reviews, parsed>>
       ELSE /\ files' = Tail(files)
            /\ pc' = "offline"
            /\ \E readable \in BOOLEAN, body \in Bodies \cup {EmptyHtml} :
                IF readable
                THEN LET source_url == offline_source_url(Head(files), offline_base)
                     IN /\ all_reviews' =
                               all_reviews \o parse_reviews(body, source_url, selectors)
                        /\ parsed' = Append(parsed, source_url)
                ELSE UNCHANGED <<all_reviews, parsed>>
    /\ UNCHANGED <<mode, pages, sel_next, selectors, offline_base, url,
                   seen_urls, page_idx, attempt, gets, slept, last, html,
                   fetched, served, resolved, output, arg, ret>>

\* lines 276-284: the sink
Save ==
    /\ pc = "save"
    /\ output' = Append(output, all_reviews)
    /\ pc' = "done"
    /\ UNCHANGED <<mode, pages, sel_next, selectors, offline_base, files, url,
                   seen_urls, all_reviews, page_idx, attempt, gets, slept,
                   last, html, fetched, served, parsed, resolved, arg, ret>>

Next == LoopHead \/ FetchAttempt \/ Continue \/ OfflineFile \/ Save

Spec == Init /\ [][Next]_vars

\* main is one sequential thread: it takes its next step whenever it has one
FairSpec == Spec /\ WF_vars(Next)

----------------------------------------------------------------------------
(* find_next_url and parse_reviews on their own, over every bounded input *)

DriverIdle ==
    /\ pages = 0
    /\ sel_next = ""
    /\ selectors = Fields
    /\ offline_base = EmptyUrl
    /\ files = <<>>
    /\ url = EmptyUrl
    /\ seen_urls = {}
    /\ all_reviews = <<>>
    /\ page_idx = 1
    /\ attempt = 0
    /\ gets = 0
    /\ slept = <<>>
    /\ last = NoCall
    /\ html = NoHtml
    /\ fetched = <<>>
    /\ served = <<>>
    /\ parsed = <<>>
    /\ resolved = 0
    /\ output = <<>>

driverVars == <<mode, pages, sel_next, selectors, offline_base, files, url,
                seen_urls, all_reviews, page_idx, attempt, gets, slept, last,
                html, fetched, served, parsed, resolved, output>>

InitNext ==
    /\ mode = "next"
    /\ pc = "call"
    /\ arg \in [page : NextPages, page_url : NextUrls, sel : {"", "a.next"}]
    /\ ret = NoResult
    /\ DriverIdle

Resolve ==
    /\ mode = "next"
    /\ pc = "call"
    /\ ret' = find_next_url(arg.page, arg.page_url, arg.sel)
    /\ pc' = "done"
    /\ UNCHANGED <<driverVars, arg>>

SpecNext == InitNext /\ [][Resolve]_vars

InitExtract ==
    /\ mode = "extract"
    /\ pc = "call"
    /\ arg \in [page : {Page(<<>>, cs) : cs \in SeqsUpTo(Cards, MaxCards)},
                page_url : {U_p1, U_biz20},
                sel : Selectors]
    /\ ret = <<>>
    /\ DriverIdle

Extract ==
    /\ mode = "extract"
    /\ pc = "call"
    /\ ret' = parse_reviews(arg.page, arg.page_url, arg.sel)
    /\ pc' = "done"
    /\ UNCHANGED <<driverVars, arg>>

SpecExtract == InitExtract /\ [][Extract]_vars

----------------------------------------------------------------------------
(* Properties of the online driver and of fetch *)

Online == mode = "online"

Range(q) == {q[i] : i \in 1..Len(q)}

\* C1: over any online run no URL is passed to fetch more than once, the
\* visited set is exactly the URLs fetched, and a run whose next-page
\* resolution returned an already visited URL fetches nothing after it.
C1_NoRefetch ==
    Online =>
        /\ \A i, j \in 1..Len(fetched) : i # j => fetched[i] # fetched[j]
        /\ seen_urls = Range(fetched)
        /\ pc \in {"fetch", "fetched"} => fetched[Len(fetched)] = url
        /\ (ret.kind = "url" /\ ret.url \in Range(parsed) /\ pc \in {"save", "done"})
               => Len(fetched) = Len(parsed)

\* the resolution returned the current URL, the page limit was not reached,
\* and the run ended
C1_Witness ==
    /\ Online
    /\ pc = "done"
    /\ page_idx <= pages
    /\ ret.kind = "url"
    /\ ret.url = fetched[Len(fetched)]
    /\ Len(fetched) = Len(parsed)

U_p2 == Url(S_x, S_p2, <<>>)

FixtureRun ==
    /\ Online
    /\ pages = 3
    /\ Len(served) >= 2
    /\ fetched[1] = U_p1
    /\ served[1] = Fix1
    /\ served[2] = Fix2

C2_Safe ==
    Online =>
        /\ Len(fetched) <= pages
        /\ (resolved > 0 /\ ret.kind = "none") => pc \in {"save", "done"}
        /\ pc = "done" => output = <<all_reviews>>
        /\ FixtureRun =>
              /\ pc \in {"save", "done"}
              /\ Len(fetched) = 2
              /\ Len(all_reviews) = 25
              /\ \A i \in 1..25 :
                     all_reviews[i].source_url = IF i <= 20 THEN U_p1 ELSE U_p2

\* C2: the online loop terminates, after at most `pages` fetch calls, and it
\* stops right after the first page whose resolution is absent; on the
\* two-page fixture with page limit 3 it fetches twice and accumulates 25
\* records, page 1's before page 2's.
C2_Terminates == [](C2_Safe) /\ <>(pc \in {"done", "crashed"})

C2_Witness == FixtureRun /\ pc = "done"

IsRetryable(r) == r.exc \/ (~Is2xx(r.status) /\ r.status \in Retryable)

\* C3: one call of fetch issues at most max_retries requests; it is still
\* running after a request only when that request ended in an exception or
\* a retryable status; it returns the body of the first 2xx response; and
\* it returns absent after a retryable failure only when all max_retries
\* attempts were used.
C3_FetchBound ==
    /\ gets <= MaxRetries
    /\ (pc = "fetch" /\ gets > 0) => (IsRetryable(last) /\ attempt = gets + 1)
    /\ pc = "fetched" =>
          /\ gets >= 1
          /\ (~last.exc /\ Is2xx(last.status)) =>
                (html = last.body /\ Len(slept) = gets - 1)
          /\ IsRetryable(last) =>
                (html = NoHtml /\ gets = MaxRetries /\ Len(slept) = MaxRetries)

C3_Witness ==
    pc = "fetched" /\ gets = MaxRetries /\ last.exc /\ html = NoHtml

IsTerminal(r) == ~r.exc /\ r.status # 0 /\ ~Is2xx(r.status) /\ r.status \notin Retryable

\* C4: a response whose status is neither 2xx nor retryable ends the call:
\* fetch has returned absent, no request follows it, and the only sleeps of
\* the call are those of the attempts before it.
C4_TerminalStatus ==
    IsTerminal(last) =>
        /\ pc # "fetch"
        /\ pc = "fetched" => (html = NoHtml /\ slept = [i \in 1..(gets - 1) |-> i])

C4_Witness ==
    pc = "fetched" /\ IsTerminal(last) /\ last.status = 404 /\ gets = 3

\* C5: when fetch returns absent the loop stops: the next step goes to the
\* sink with no fetch, extraction or resolution and the records unchanged;
\* the sink writes the accumulated records once and the run is over.
C5_FetchFailureStops ==
    /\ [][(pc = "fetched" /\ html = NoHtml) =>
            (pc' = "save" /\ UNCHANGED <<fetched, parsed, resolved, all_reviews, output>>)]_vars
    /\ [][pc = "save" =>
            (/\ pc' = "done"
             /\ output = <<>>
             /\ output' = <<all_reviews>>
             /\ UNCHANGED <<fetched, parsed, resolved, all_reviews>>)]_vars
    /\ [][pc \notin {"done", "crashed"}]_vars

\* the fetch of page 2 failed after page 1 gave 20 records, and the run ended
C5_Witness ==
    /\ Online
    /\ pc = "done"
    /\ html = NoHtml
    /\ Len(fetched) = 2
    /\ Len(served) = 1
    /\ Len(all_reviews) = 20
    /\ output = <<all_reviews>>

----------------------------------------------------------------------------
(* Properties of find_next_url *)

Called == pc = "done"

ArgElems == arg.page.elems

SelHits ==
    {i \in 1..Len(ArgElems) : arg.sel # "" /\ Matches(ArgElems[i], arg.sel)}

RelHits == {i \in 1..Len(ArgElems) : RelNext(ArgElems[i])}

TextHits == {i \in 1..Len(ArgElems) : TextNext(ArgElems[i])}

WithHref(I) == {i \in I : Truthy(ArgElems[i].href)}

Joined(i) == Found(urljoin(arg.page_url, ArgElems[i].href))

SameSite(u, v) == u.scheme = v.scheme /\ u.netloc = v.netloc /\ u.path = v.path

\* the outcome of strategy 4 is a URL of the page's own scheme, host and
\* path, or the error of a start value that int() rejects; never absent
Synthesized ==
    \/ ret.kind = "url" /\ SameSite(ret.url, arg.page_url)
    \/ ret.kind = "error"

\* C6 as stated: a strategy wins as soon as some element it matches has an
\* href.
C6_AnyMatchWins ==
    Called =>
        IF WithHref(SelHits) # {} THEN \E i \in WithHref(SelHits) : ret = Joined(i)
        ELSE IF WithHref(RelHits) # {} THEN \E i \in WithHref(RelHits) : ret = Joined(i)
        ELSE IF WithHref(TextHits) # {} THEN ret = Joined(First(WithHref(TextHits)))
        ELSE IF KnownSite(arg.page_url) THEN Synthesized
        ELSE ret = NotFound

\* C6, amended: strategies 1 and 2 look only at the first element they match
\* (in document order) and yield nothing when that element has no href;
\* strategy 3 takes the first matching anchor that has an href; then the
\* offset synthesis for a known host and path; then absent. Every href
\* result is the href joined against page_url.
C6_FirstMatchWins ==
    Called =>
        IF SelHits # {} /\ First(SelHits) \in WithHref(SelHits)
            THEN ret = Joined(First(SelHits))
        ELSE IF RelHits # {} /\ First(RelHits) \in WithHref(RelHits)
            THEN ret = Joined(First(RelHits))
        ELSE IF WithHref(TextHits) # {} THEN ret = Joined(First(WithHref(TextHits)))
        ELSE IF KnownSite(arg.page_url) THEN Synthesized
        ELSE ret = NotFound

\* the first element the selector matches has no href, a later one has, and
\* the result came from a lower-ranked strategy
C6_Witness ==
    /\ Called
    /\ WithHref(SelHits) # {}
    /\ First(SelHits) \notin WithHref(SelHits)
    /\ WithHref(RelHits) # {}
    /\ ret = Joined(First(RelHits))

NoNextLink == SelHits = {} /\ RelHits = {} /\ TextHits = {}

\* the value of the page URL's start parameter, "0" when it has none
RawStart == GetFirst(arg.page_url.query, "start", <<"0">>)

\* C7: with no next-link element on a page of the known site, the result is
\* a URL, the page URL with start set to the current start plus 20.
C7_SynthesisTotal ==
    (Called /\ NoNextLink /\ KnownSite(arg.page_url)) =>
        /\ ret.kind = "url"
        /\ SameSite(ret.url, arg.page_url)
        /\ IntOk(RawStart) =>
              GetFirst(ret.url.query, "start", <<>>) = Str(Int_(RawStart) + 20)

----------------------------------------------------------------------------
(* Properties of parse_reviews *)

AllNone(r) == ~r.reviewer.some /\ ~r.rating.some /\ ~r.date.some /\ ~r.text.some

ArgReviews ==
    [i \in 1..Len(arg.page.cards) |-> Review(arg.page.cards[i], arg.page_url, arg.sel)]

\* C8: the records are those of the containers with at least one non-None
\* field, in container order, each with source_url equal to page_url.
C8_DropIffAllNone ==
    Called => ret = SelectSeq(ArgReviews, LAMBDA r : ~AllNone(r))

----------------------------------------------------------------------------
(* Properties of the offline mode *)

Offline == mode = "offline"

\* a readable file is parsed by this step, with a base URL supplied
ParsesFile ==
    /\ Offline
    /\ pc = "offline"
    /\ files # <<>>
    /\ offline_base # EmptyUrl
    /\ Len(parsed') = Len(parsed) + 1

NewSource == parsed'[Len(parsed')]

StartOf(u) == GetFirst(u.query, "start", <<>>)

\* the digits the stem ends with
TrailingDigits(stem) ==
    LET b == First({i \in 1..(Len(stem) + 1) : \A j \in i..Len(stem) : IsDigit(stem[j])})
    IN SubSeq(stem, b, Len(stem))

NoFetching == Offline => (fetched = <<>> /\ gets = 0 /\ resolved = 0)

----------------------------------------------------------------------------
(* The offset pagination of the online loop *)

\* the run started on the known site with a numeric or absent start, and no
\* page served carried a next-link element
OffsetRun ==
    /\ Online
    /\ fetched # <<>>
    /\ KnownSite(fetched[1])
    /\ IntOk(GetFirst(fetched[1].query, "start", <<"0">>))
    /\ \A i \in 1..Len(served) : served[i].elems = <<>>

FirstStart == Int_(GetFirst(fetched[1].query, "start", <<"0">>))

\* C10: in such a run resolution never returns absent nor a visited URL;
\* the loop ends only at the page limit or at a failed fetch; page i is
\* fetched at offset s + 20*(i-1); and a run whose fetches all succeed
\* performs exactly `pages` fetches.
C10_OffsetPagination ==
    OffsetRun =>
        /\ pc # "crashed"
        /\ resolved > 0 => (ret.kind = "url" /\ ret.url \notin Range(parsed))
        /\ \A i \in 2..Len(fetched) :
              /\ SameSite(fetched[i], fetched[1])
              /\ StartOf(fetched[i]) = Str(FirstStart + 20 * (i - 1))
        /\ pc \in {"save", "done"} =>
              \/ page_idx > pages
              \/ Falsy(html) /\ Len(fetched) = Len(served) + 1
        /\ (pc = "done" /\ Len(served) = Len(fetched)) => Len(fetched) = pages

C10_Witness ==
    /\ OffsetRun
    /\ pc = "done"
    /\ pages = 3
    /\ Len(served) = 3
    /\ fetched[1] = U_biz20
    /\ StartOf(fetched[3]) = <<"6", "0">>

====
